---- MODULE Spec2Model ----
(***************************************************************************)
(* Model of src/particle_swarm_optimization.py: the classes Particle and   *)
(* ParticleSwarmOptimization.                                              *)
(*                                                                         *)
(* Representation.                                                         *)
(*   - a numpy array is a tuple of integers (exact arithmetic; rounding    *)
(*     and overflow of floats are not modelled), None is the empty tuple;  *)
(*   - a fitness value is an integer, -inf is NegInf, a number below every *)
(*     value that is ever notified; values are only ever compared;         *)
(*   - current_value is None or the 1-tuple <<value>>;                     *)
(*   - Python names are references.  self.best_global names either the     *)
(*     extra Particle built at line 47 (best_global = 0, the object is     *)
(*     kept in seed) or the very object particles[i] (best_global = i), as *)
(*     the assignment at line 84 binds the name to the list element and    *)
(*     copies nothing;                                                     *)
(*     once the name is bound to a particle nothing refers to the object   *)
(*     of line 47 any more and it is gone: seed is then Collected;         *)
(*   - lines 88-89 bind v and x to new arrays, so an array that            *)
(*     best_position names (line 101) is never written afterwards;         *)
(*   - self.count is 0-based, particles[count] is particles[count + 1].    *)
(***************************************************************************)
EXTENDS Integers, Sequences, FiniteSets, TLC

VARIABLES
    lower_bound,   \* constructor argument
    upper_bound,   \* constructor argument
    hp,            \* self.hp
    particles,     \* self.particles
    best_global,   \* self.best_global: 0 = the Particle of line 47, i = particles[i]
    seed,          \* the Particle object built at line 47
    count,         \* self.count
    err,           \* the exception the last call raised, "none" if it returned
    handed,        \* what get_position_to_evaluate returned since the last notification
    calls,         \* notify_evaluation calls so far
    generation,    \* advance_generation runs so far
    evaluated,     \* the pairs <<position, value>> evaluated so far
    history,       \* per particle, the pairs <<position, value>> of its evaluations, in order
    seeded,        \* whether an update pass has read the position of the Particle of line 47
    twin           \* a second optimizer, built equal and fed the same values and draws

vars == <<lower_bound, upper_bound, hp, particles, best_global, seed, count,
          err, handed, calls, generation, evaluated, history, seeded, twin>>

\* ----------------------------------------------------------------- bounds
MaxNotify == 4

\* ----------------------------------------------------------------- inputs
NumParticles == {1, 2}
InertiaWeights == {0, 1}
CognitiveParameters == {1}
SocialParameters == {1}
BoundPairs == { << <<0>>, <<0>> >>, << <<1>>, <<1>> >>, << <<0>>, <<1>> >> }
Values == {1, 2}
DrawSet == {0, 1}

NegInf == -1
None == << >>
Scalars == Values \cup {NegInf}

\* ----------------------------------------------------------------- arrays
VecAdd(a, b) == [k \in DOMAIN a |-> a[k] + b[k]]
VecSub(a, b) == [k \in DOMAIN a |-> a[k] - b[k]]
VecScale(r, a) == [k \in DOMAIN a |-> r * a[k]]

\* np.random.uniform(lo, hi): any array between lo and hi, componentwise
Uniform(lo, hi) ==
    LET all == {lo[k] : k \in DOMAIN lo} \cup {hi[k] : k \in DOMAIN hi}
        least == CHOOSE m \in all : \A n \in all : m <= n
        most == CHOOSE m \in all : \A n \in all : m >= n
    IN {a \in [DOMAIN lo -> least..most] : \A k \in DOMAIN lo : lo[k] <= a[k] /\ a[k] <= hi[k]}

\* Particle.__init__: the particles it can build
Particle(lb, ub) ==
    LET delta == VecSub(ub, lb)
    IN {[x |-> x, v |-> v, current_value |-> None, best_position |-> None,
         best_value |-> NegInf] :
           x \in Uniform(lb, ub), v \in Uniform(VecScale(-1, delta), delta)}

\* what seed holds once no name refers to the Particle of line 47
Collected == [x |-> None, v |-> None, current_value |-> None, best_position |-> None,
              best_value |-> NegInf]

\* ------------------------------------------------------------- optimizer
\* An optimizer object: [particles, best_global, seed, count].
This == [particles |-> particles, best_global |-> best_global, seed |-> seed,
         count |-> count]

\* the Particle object the name self.best_global refers to
BestGlobal(o) == IF o.best_global = 0 THEN o.seed ELSE o.particles[o.best_global]

get_best_position(o) == BestGlobal(o).x

get_best_value(o) == BestGlobal(o).best_value

get_position_to_evaluate(o) == o.particles[o.count + 1].x

\* RecordEvaluation without the test of line 99: the record follows every evaluation
RecordEvaluationAlways(p, value) ==
    [p EXCEPT !.current_value = <<value>>, !.best_value = value, !.best_position = p.x]

\* RecordEvaluation with line 101 moved out of the if of line 99
RecordEvaluationPositionAlways(p, value) ==
    LET p1 == [p EXCEPT !.current_value = <<value>>, !.best_position = p.x]
    IN IF p1.current_value[1] > p1.best_value
       THEN [p1 EXCEPT !.best_value = p1.current_value[1]]
       ELSE p1

\* RecordEvaluation with >= for the > of line 99
RecordEvaluationNonStrict(p, value) ==
    LET p1 == [p EXCEPT !.current_value = <<value>>]
    IN IF p1.current_value[1] >= p1.best_value
       THEN [p1 EXCEPT !.best_value = p1.current_value[1], !.best_position = p1.x]
       ELSE p1

\* lines 98-101: record the value in particle p
RecordEvaluation(p, value) ==
    LET p1 == [p EXCEPT !.current_value = <<value>>]
    IN IF p1.current_value[1] > p1.best_value
       THEN [p1 EXCEPT !.best_value = p1.current_value[1], !.best_position = p1.x]
       ELSE p1

\* BestTrackingPass comparing every particle with the global best the pass
\* started with, so that the last particle above it wins
BestTrackingPassStale(o, i) ==
    LET above == {k \in i..Len(o.particles) : o.particles[k].best_value > get_best_value(o)}
    IN IF above = {} THEN o
       ELSE [o EXCEPT !.best_global = CHOOSE k \in above : \A m \in above : m <= k,
                      !.seed = Collected]

\* BestTrackingPass with >= for the > of line 83
RECURSIVE BestTrackingPassNonStrict(_, _)
BestTrackingPassNonStrict(o, i) ==
    IF i > Len(o.particles) THEN o
    ELSE BestTrackingPassNonStrict(
            IF o.particles[i].best_value >= get_best_value(o)
            THEN [o EXCEPT !.best_global = i, !.seed = Collected]
            ELSE o,
            i + 1)

\* lines 82-84, iterations i..num_particles
RECURSIVE BestTrackingPass(_, _)
BestTrackingPass(o, i) ==
    IF i > Len(o.particles) THEN o
    ELSE BestTrackingPass(
            IF o.particles[i].best_value > get_best_value(o)
            THEN [o EXCEPT !.best_global = i, !.seed = Collected]
            ELSE o,
            i + 1)

\* NewVelocity whose social term pulls by the global best itself, not by its
\* distance from the particle
NewVelocityAbsolute(h, p, g, rp, rg) ==
    VecAdd(VecAdd(VecScale(h.inertia_weight, p.v),
                  VecScale(rp * h.cognitive_parameter, VecSub(p.best_position, p.x))),
           VecScale(rg * h.social_parameter, g))

\* line 88: the new velocity of particle p, g the array best_global.x;
\* None - array raises TypeError, which the caller checks before
NewVelocity(h, p, g, rp, rg) ==
    VecAdd(VecAdd(VecScale(h.inertia_weight, p.v),
                  VecScale(rp * h.cognitive_parameter, VecSub(p.best_position, p.x))),
           VecScale(rg * h.social_parameter, VecSub(g, p.x)))

\* a position brought back into [lower_bound, upper_bound]
Clamp(a) ==
    [k \in DOMAIN a |-> IF a[k] < lower_bound[k] THEN lower_bound[k]
                         ELSE IF a[k] > upper_bound[k] THEN upper_bound[k] ELSE a[k]]

\* UpdatePass that clamps the new position to the bounds
RECURSIVE UpdatePassClamped(_, _, _, _)
UpdatePassClamped(o, h, draws, i) ==
    IF i > Len(o.particles) THEN [o |-> o, err |-> "none"]
    ELSE LET p == o.particles[i]
         IN IF p.best_position = None
            THEN [o |-> o, err |-> "TypeError"]
            ELSE LET v == NewVelocity(h, p, get_best_position(o), draws[i][1], draws[i][2])
                     o1 == [o EXCEPT !.particles[i].v = v]
                     o2 == [o1 EXCEPT !.particles[i].x =
                                Clamp(VecAdd(o1.particles[i].x, o1.particles[i].v))]
                 IN UpdatePassClamped(o2, h, draws, i + 1)

\* lines 85-89, iterations i..num_particles; draws[i] = <<rp, rg>>
RECURSIVE UpdatePass(_, _, _, _)
UpdatePass(o, h, draws, i) ==
    IF i > Len(o.particles) THEN [o |-> o, err |-> "none"]
    ELSE LET p == o.particles[i]
         IN IF p.best_position = None
            THEN [o |-> o, err |-> "TypeError"]
            ELSE LET v == NewVelocity(h, p, get_best_position(o), draws[i][1], draws[i][2])
                     o1 == [o EXCEPT !.particles[i].v = v]
                     o2 == [o1 EXCEPT !.particles[i].x = VecAdd(o1.particles[i].x, o1.particles[i].v)]
                 IN UpdatePass(o2, h, draws, i + 1)

\* whether the update pass, started on o, reads the position of the Particle
\* of line 47 as best_global.x (line 88 raises before that when the first
\* particle has no best_position)
ReadsSeed(o) == o.best_global = 0 /\ o.particles[1].best_position # None

\* advance_generation without line 90
advance_generation_NoReset(o, h, draws) ==
    LET b == BestTrackingPass(o, 1)
        u == UpdatePass(b, h, draws, 1)
    IN [o |-> u.o, err |-> u.err, advanced |-> TRUE, seeded |-> ReadsSeed(b)]

\* advance_generation with the two loops in the other order
advance_generation_UpdateFirst(o, h, draws) ==
    LET u == UpdatePass(o, h, draws, 1)
        b == BestTrackingPass(u.o, 1)
    IN IF u.err = "none"
       THEN [o |-> [b EXCEPT !.count = 0], err |-> "none", advanced |-> TRUE,
             seeded |-> ReadsSeed(o)]
       ELSE [o |-> u.o, err |-> u.err, advanced |-> TRUE, seeded |-> ReadsSeed(o)]

\* lines 78-90; an exception leaves the object as it was when raised
advance_generation(o, h, draws) ==
    LET b == BestTrackingPass(o, 1)
        u == UpdatePass(b, h, draws, 1)
    IN IF u.err = "none"
       THEN [o |-> [u.o EXCEPT !.count = 0], err |-> "none", advanced |-> TRUE,
             seeded |-> ReadsSeed(b)]
       ELSE [o |-> u.o, err |-> u.err, advanced |-> TRUE, seeded |-> ReadsSeed(b)]

\* notify_evaluation without the test of line 103: every notification advances
notify_evaluation_Eager(o, h, value, draws) ==
    IF o.count >= Len(o.particles)
    THEN [o |-> o, err |-> "IndexError", advanced |-> FALSE, seeded |-> FALSE]
    ELSE LET o1 == [o EXCEPT !.particles[o.count + 1] = RecordEvaluation(@, value)]
             o2 == [o1 EXCEPT !.count = o1.count + 1]
             d == [i \in 1..h.num_particles |-> <<0, 0>>]
         IN advance_generation(o2, h, IF draws = << >> THEN d ELSE draws)

\* lines 91-104
notify_evaluation(o, h, value, draws) ==
    IF o.count >= Len(o.particles)
    THEN [o |-> o, err |-> "IndexError", advanced |-> FALSE, seeded |-> FALSE]
    ELSE LET o1 == [o EXCEPT !.particles[o.count + 1] = RecordEvaluation(@, value)]
             o2 == [o1 EXCEPT !.count = o1.count + 1]
         IN IF o2.count = h.num_particles
            THEN advance_generation(o2, h, draws)
            ELSE [o |-> o2, err |-> "none", advanced |-> FALSE, seeded |-> FALSE]

\* RandomUniform drawing from a source of its own instead of the one it is fed from
RandomUniformAmbient(fed) == [DOMAIN fed -> DrawSet \X DrawSet]

\* lines 86-87: what random.uniform returns when the random source yields fed
RandomUniform(fed) == {fed}

\* the draws one notify_evaluation call consumes
Fed(o, h) ==
    IF o.count + 1 = h.num_particles
    THEN [1..h.num_particles -> DrawSet \X DrawSet]
    ELSE {<< >>}

\* ------------------------------------------------------------------ Init
\* lines 42-48
Init ==
    /\ \E b \in BoundPairs : lower_bound = b[1] /\ upper_bound = b[2]
    /\ hp \in [num_particles : NumParticles, inertia_weight : InertiaWeights,
               cognitive_parameter : CognitiveParameters,
               social_parameter : SocialParameters]
    /\ particles \in [1..hp.num_particles -> Particle(lower_bound, upper_bound)]
    /\ seed \in Particle(lower_bound, upper_bound)
    /\ best_global = 0
    /\ count = 0
    /\ err = "none"
    /\ handed = None
    /\ calls = 0
    /\ generation = 0
    /\ evaluated = {}
    /\ history = [i \in 1..hp.num_particles |-> << >>]
    /\ seeded = FALSE
    /\ twin = This

\* --------------------------------------------------------------- actions
\* lines 50-57: returns get_best_position(This), assigns nothing
GetBestPosition == UNCHANGED vars

\* lines 59-67: returns get_best_value(This), assigns nothing
GetBestValue == UNCHANGED vars

\* lines 69-76: returns particles[count].x (IndexError when count is out of range)

GetPositionToEvaluateAdvancing ==
    /\ count < Len(particles)
    /\ handed' = get_position_to_evaluate(This)
    /\ count' = (count + 1) % Len(particles)
    /\ UNCHANGED <<lower_bound, upper_bound, hp, particles, best_global, seed, err,
                   calls, generation, evaluated, history, seeded, twin>>

GetPositionToEvaluate ==
    /\ IF count < Len(particles)
       THEN /\ handed' = get_position_to_evaluate(This)
            /\ err' = "none"
       ELSE /\ err' = "IndexError"
            /\ UNCHANGED handed
    /\ UNCHANGED <<lower_bound, upper_bound, hp, particles, best_global, seed, count,
                   calls, generation, evaluated, history, seeded, twin>>

NotifyEvaluation(value) ==
    /\ calls < MaxNotify
    /\ \E fed \in Fed(This, hp) :
         \E d1 \in RandomUniform(fed), d2 \in RandomUniform(fed) :
            LET r == notify_evaluation(This, hp, value, d1)
                r2 == notify_evaluation(twin, hp, value, d2)
            IN /\ particles' = r.o.particles
               /\ best_global' = r.o.best_global
               /\ seed' = r.o.seed
               /\ count' = r.o.count
               /\ err' = r.err
               /\ generation' = IF r.advanced THEN generation + 1 ELSE generation
               /\ evaluated' = IF count < Len(particles)
                               THEN evaluated \cup {<<get_position_to_evaluate(This), value>>}
                               ELSE evaluated
               /\ history' = IF count < Len(particles)
                             THEN [history EXCEPT ![count + 1] =
                                     Append(@, <<get_position_to_evaluate(This), value>>)]
                             ELSE history
               /\ seeded' = (seeded \/ r.seeded)
               /\ twin' = r2.o
    /\ calls' = calls + 1
    /\ handed' = None
    /\ UNCHANGED <<lower_bound, upper_bound, hp>>

Next ==
    \/ \E value \in Values : NotifyEvaluation(value)
    \/ GetPositionToEvaluate
    \/ GetBestPosition
    \/ GetBestValue

Spec == Init /\ [][Next]_vars

NextScalar ==
    \/ \E value \in Scalars : NotifyEvaluation(value)
    \/ GetPositionToEvaluate
    \/ GetBestPosition
    \/ GetBestValue

SpecScalar == Init /\ [][NextScalar]_vars

\* ---------------------------------------------------------------- claims
\* the particle the last notify_evaluation call recorded its value in
LastNotified == particles[IF count = 0 THEN hp.num_particles ELSE count]

\* the highest value notified so far
MaxNotified == CHOOSE m \in {e[2] : e \in evaluated} : \A e \in evaluated : e[2] <= m

\* C1: with one particle, after the first notify_evaluation(v) the best value
\* is v and the best position is the position x0 that was evaluated.
C1_SingleParticleBest ==
    (hp.num_particles = 1 /\ calls = 1 /\ err = "none") =>
        \A e \in evaluated :
            get_best_value(This) = e[2] /\ get_best_position(This) = e[1]

\* C2: the global best is a snapshot: get_best_position() changes only in a
\* generation advance whose best-tracking pass takes a new particle, and is
\* then the position that particle had when the pass ran.
C2_SnapshotByValue ==
    [][ /\ (get_best_position(This)' # get_best_position(This)
             => generation' = generation + 1 /\ best_global' # best_global)
        /\ (best_global' # best_global
             => get_best_position(This)' = particles[best_global'].x) ]_vars

\* C3: whenever the best value is above -inf, the best position and the best
\* value are the position and the value of one and the same evaluation.
C3_BestBelongsToOneEvaluation ==
    get_best_value(This) > NegInf =>
        <<get_best_position(This), get_best_value(This)>> \in evaluated

\* C4: get_best_value() never decreases from one call to the next.
C4_BestValueMonotone ==
    [][get_best_value(This)' >= get_best_value(This)]_vars

\* a value below the best value was notified after the best value was set
C4_Witness ==
    /\ calls >= 2 /\ err = "none"
    /\ LastNotified.current_value[1] < get_best_value(This)
    /\ LastNotified.best_value = get_best_value(This)

\* C5: after every completed generation the best value is the highest value
\* notified so far.
C5_BestValueIsMaxNotified ==
    (count = 0 /\ calls > 0 /\ err = "none") => get_best_value(This) = MaxNotified

\* two particles, the lower value first (the scenario 3.0 then 7.0)
C5_Witness ==
    /\ hp.num_particles = 2 /\ calls = 2 /\ count = 0
    /\ particles[1].current_value = <<1>> /\ particles[2].current_value = <<2>>
    /\ get_best_value(This) = 2

\* C6: the cursor stays in [0, num_particles), and the generation advances
\* run exactly at the notifications whose number is a positive multiple of
\* num_particles, after which the cursor is 0.
C6_CursorProtocol ==
    /\ count \in 0..(hp.num_particles - 1)
    /\ generation = calls \div hp.num_particles
    /\ count = calls % hp.num_particles

\* two particles, two completed generations
C6_Witness == hp.num_particles = 2 /\ generation = 2 /\ count = 0

\* C7: the three getters change nothing of the optimizer, a repeated
\* get_position_to_evaluate() returns the same vector, and notify_evaluation
\* is applied whether or not a position was handed out before it.
C7_GettersPure ==
    [][ /\ (calls' = calls => UNCHANGED <<hp, particles, best_global, seed, count>>)
        /\ (handed # None /\ handed' # None => handed' = handed)
        /\ (calls' = calls + 1
             => /\ count' = (count + 1) % hp.num_particles
                /\ particles'[count + 1].current_value # None) ]_vars

\* a position was handed out after a notification and the optimizer is where
\* the notification left it
C7_Witness ==
    /\ calls >= 1 /\ handed # None /\ handed = get_position_to_evaluate(This)
    /\ count = calls % hp.num_particles

\* C8: no particle's best_value ever decreases, and best_position and
\* best_value are set in the same step: best_position changes only when
\* best_value rises, and when best_value rises best_position is set to the
\* position that was evaluated.
C8_PersonalBestTogether ==
    [][\A i \in 1..hp.num_particles :
         /\ particles'[i].best_value >= particles[i].best_value
         /\ (particles'[i].best_position # particles[i].best_position
              => particles'[i].best_value > particles[i].best_value)
         /\ (particles'[i].best_value # particles[i].best_value
              => particles'[i].best_position = particles[i].x)]_vars

\* a particle that moved away from its best position and was then evaluated
\* lower: its record stayed
C8_Witness ==
    \E i \in 1..hp.num_particles :
        /\ particles[i].best_value = 2 /\ particles[i].current_value = <<1>>
        /\ particles[i].best_position # None
        /\ particles[i].best_position # particles[i].x

\* C9: no call ever raises an error, whatever scalar values are notified.
C9_NoFailureStates == err = "none"

Zero == VecSub(lower_bound, lower_bound)

\* C11: with lower_bound = upper_bound every particle stays at lower_bound
\* with velocity 0, and get_position_to_evaluate() and get_best_position()
\* return lower_bound, in every generation.
C11_ZeroWidthBounds ==
    lower_bound = upper_bound =>
        /\ \A i \in 1..hp.num_particles :
              particles[i].x = lower_bound /\ particles[i].v = Zero
        /\ get_best_position(This) = lower_bound
        /\ get_position_to_evaluate(This) = lower_bound
        /\ handed \in {None, lower_bound}

\* two particles at the point [1], two generations advanced, a position handed out
C11_Witness ==
    /\ lower_bound = upper_bound /\ lower_bound # Zero
    /\ hp.num_particles = 2 /\ generation = 2 /\ handed = lower_bound

\* C12: a notify_evaluation that does not complete a generation leaves
\* get_best_value() and get_best_position() as they were.
C12_BestFixedBetweenAdvances ==
    [][(calls' = calls + 1 /\ generation' = generation)
         => /\ get_best_value(This)' = get_best_value(This)
            /\ get_best_position(This)' = get_best_position(This)]_vars

\* the global-best position as it stands at the end of the best-tracking
\* pass of the step: the position, before the update pass, of the particle
\* the pass ends on
PassBestPosition ==
    IF best_global' = 0 THEN seed.x ELSE particles[best_global'].x

\* C13: in an advance every particle i gets
\*   v' = inertia_weight*v + rp*cognitive_parameter*(best_position - x)
\*                         + rg*social_parameter*(G - x)   and   x' = x + v'
\* for some draws rp, rg, with one and the same G for all particles: the
\* global-best position at the end of the best-tracking pass.
C13_UpdateRule ==
    [][(generation' = generation + 1 /\ err' = "none")
         => \A i \in 1..hp.num_particles :
               /\ \E rp \in DrawSet, rg \in DrawSet :
                     particles'[i].v =
                        VecAdd(VecAdd(VecScale(hp.inertia_weight, particles[i].v),
                                      VecScale(rp * hp.cognitive_parameter,
                                               VecSub(particles'[i].best_position,
                                                      particles[i].x))),
                               VecScale(rg * hp.social_parameter,
                                        VecSub(PassBestPosition, particles[i].x)))
               /\ particles'[i].x = VecAdd(particles[i].x, particles'[i].v)]_vars

\* C14: after the first notify_evaluation for a particle, whatever the value,
\* the particle's best_value is that value and its best_position is the
\* position that was evaluated.
C14_FirstEvaluationIsPersonalBest ==
    \A i \in 1..hp.num_particles :
        Len(history[i]) = 1 =>
            /\ particles[i].best_value = history[i][1][2]
            /\ particles[i].best_position = history[i][1][1]

\* the global best value the best-tracking pass of the step starts with
PassStartValue ==
    IF best_global = 0 THEN NegInf ELSE particles'[best_global].best_value

C16_RoundRobin ==
    [][calls' = calls + 1 =>
        /\ \A i \in 1..hp.num_particles :
              Len(history'[i]) = generation' + (IF i <= count' THEN 1 ELSE 0)
        /\ history'[count + 1] # history[count + 1]
        /\ particles'[count + 1].current_value
              = <<history'[count + 1][Len(history'[count + 1])][2]>>
        /\ history'[count + 1][Len(history'[count + 1])][1] = particles[count + 1].x
        /\ handed \in {None, particles[count + 1].x}
        /\ (generation' = generation =>
              /\ count' = count + 1
              /\ best_global' = best_global
              /\ \A i \in 1..hp.num_particles :
                    /\ particles'[i].x = particles[i].x
                    /\ particles'[i].v = particles[i].v
                    /\ (i # count + 1 => particles'[i] = particles[i]))]_vars

\* the first notification of the second generation of two particles
C16_Witness ==
    /\ hp.num_particles = 2 /\ generation = 1 /\ count = 1
    /\ Len(history[1]) = 2 /\ Len(history[2]) = 1

\* C17: no update pass reads the position of the randomly placed Particle of
\* line 47, and once a generation has advanced the global best is a particle
\* that was evaluated, with a best value above -inf.
C17_SeedNeverSteers ==
    /\ ~seeded
    /\ (generation >= 1 =>
          /\ best_global \in 1..hp.num_particles
          /\ get_best_value(This) > NegInf
          /\ \E e \in evaluated : e[2] = get_best_value(This))

\* two generations advanced, the second particle attracting the first
C17_Witness ==
    /\ hp.num_particles = 2 /\ generation = 2 /\ best_global = 2
    /\ particles[1].x # history[1][1][1]

\* the values notified for particle i
ValuesOf(i) == {history[i][k][2] : k \in 1..Len(history[i])}

\* the place in history[i] of the first evaluation with the highest value
FirstBest(i) ==
    CHOOSE k \in 1..Len(history[i]) :
        /\ \A m \in 1..Len(history[i]) : history[i][m][2] <= history[i][k][2]
        /\ \A m \in 1..(k - 1) : history[i][m][2] < history[i][k][2]

\* C18: for every particle evaluated, best_value is the highest value
\* notified for it and best_position the position of the first evaluation
\* that reached that value.
C18_PersonalBestConsistent ==
    \A i \in 1..hp.num_particles :
        Len(history[i]) > 0 =>
            /\ \A w \in ValuesOf(i) : w <= particles[i].best_value
            /\ particles[i].best_value = history[i][FirstBest(i)][2]
            /\ particles[i].best_position = history[i][FirstBest(i)][1]

\* a particle evaluated twice with the same value at two positions keeps the
\* first, and has moved away from it
C18_Witness ==
    \E i \in 1..hp.num_particles :
        /\ Len(history[i]) >= 2
        /\ history[i][1][2] = history[i][2][2]
        /\ history[i][1][1] # history[i][2][1]
        /\ particles[i].best_position = history[i][1][1]
        /\ particles[i].best_position # particles[i].x

\* a position outside [lower_bound, upper_bound]
OutOfBounds(a) ==
    \E k \in DOMAIN a : a[k] < lower_bound[k] \/ a[k] > upper_bound[k]

\* C19: an advance leaves every particle at position + new velocity,
\* unrestricted, so positions outside the bounds are reached and handed out.
C19_NoClamping ==
    [][(generation' = generation + 1 /\ err' = "none")
         => \A i \in 1..hp.num_particles :
               particles'[i].x = VecAdd(particles[i].x, particles'[i].v)]_vars

\* get_position_to_evaluate() has returned a position outside non-degenerate bounds
C19_Witness ==
    /\ lower_bound # upper_bound
    /\ handed # None /\ handed = get_position_to_evaluate(This)
    /\ OutOfBounds(handed)

====
